---- MODULE Spec2Model ----
(***************************************************************************)
(* Bernstein-Vazirani algorithm of BValg.py: the bit-list conversions, the *)
(* BVAlgorithm_qiskit object (secret, circuit, noise model), the circuit   *)
(* it builds and the accuracy it computes from the simulator's counts.     *)
(*                                                                         *)
(* A Python string is a sequence of one-character strings, a gate is a     *)
(* triple <<name, wire, wire-or-classical-bit>>, an accuracy result/shots  *)
(* is the pair <<result, shots>>.                                          *)
(***************************************************************************)
EXTENDS Integers, Sequences, FiniteSets, TLC

VARIABLES num_qubits, a, b, circuit, noise_model, computed, out

vars == <<num_qubits, a, b, circuit, noise_model, computed, out>>

\* ------------------------------------------------------------------ bounds
MaxN == 3
MaxGates == 20
MaxShots == 2
MaxWidth == 4

\* --------------------------------------------------------------- helpers
RECURSIVE Pow2(_)
Pow2(k) == IF k <= 0 THEN 1 ELSE 2 * Pow2(k - 1)

Reverse(s) == [i \in 1..Len(s) |-> s[Len(s) + 1 - i]]

\* The value of a call: what it returned or the exception it raised.
Returned(op, arg, val) ==
    [op |-> op, arg |-> arg, kind |-> "ok", msg |-> "", val |-> val, counts |-> <<>>]

Raised(op, arg, kind, msg) ==
    [op |-> op, arg |-> arg, kind |-> kind, msg |-> msg, val |-> <<>>, counts |-> <<>>]

\* The caller is single-threaded: it holds the outcome of the call it made
\* last, or, once it has taken it, nothing; it makes one call at a time.
NoCall == Returned("none", <<>>, <<>>)

return_to_caller ==
    /\ out # NoCall
    /\ out' = NoCall
    /\ UNCHANGED <<num_qubits, a, b, circuit, noise_model, computed>>

\* ------------------------------------------------------ module functions
\* controllist.insert(0, k % 2); k = k >> 1, num_qubits times.
RECURSIVE int_to_list_loop(_, _, _)
int_to_list_loop(i, k, controllist) ==
    IF i <= 0 THEN controllist
    ELSE int_to_list_loop(i - 1, k \div 2, <<k % 2>> \o controllist)

convert_int_to_list_lsb_first(width, alginput) ==
    Reverse(int_to_list_loop(width, alginput, <<>>))

convert_int_to_list(width, alginput) ==
    int_to_list_loop(width, alginput, <<>>)

\* result = result + (bitlist[i] << (num_qubits - 1 - i)), i = 0 .. num_qubits-1
\* (the list is indexed from 1 here).
RECURSIVE list_to_int_loop(_, _, _, _)
list_to_int_loop(width, bitlist, i, result) ==
    IF i >= width THEN result
    ELSE list_to_int_loop(width, bitlist, i + 1,
                          result + bitlist[i + 1] * Pow2(width - 1 - i))

convert_list_to_int_lsb_first(width, bitlist) ==
    list_to_int_loop(width, Reverse(bitlist), 0, 0)

convert_list_to_int(width, bitlist) ==
    list_to_int_loop(width, bitlist, 0, 0)

\* ------------------------------------------- calls of the module functions
BitLists(len) == [1..len -> {0, 1}]

call_convert_int_to_list ==
    /\ out = NoCall
    /\ \E width \in 1..MaxWidth, alginput \in 0..(Pow2(MaxWidth + 1) - 1) :
           /\ out' = Returned("convert_int_to_list", <<width, alginput>>,
                              convert_int_to_list(width, alginput))
           /\ UNCHANGED <<num_qubits, a, b, circuit, noise_model, computed>>

call_convert_list_to_int ==
    /\ out = NoCall
    /\ \E width \in 1..MaxWidth, len \in 1..MaxWidth :
           \E bitlist \in BitLists(len) :
               /\ out' = IF len < width
                         THEN Raised("convert_list_to_int", <<width, bitlist>>,
                                     "IndexError", "list index out of range")
                         ELSE Returned("convert_list_to_int", <<width, bitlist>>,
                                       convert_list_to_int(width, bitlist))
               /\ UNCHANGED <<num_qubits, a, b, circuit, noise_model, computed>>

InitCodec ==
    /\ num_qubits = 2
    /\ a = 0
    /\ b = 0
    /\ circuit = <<>>
    /\ noise_model = "None"
    /\ computed = FALSE
    /\ out = NoCall

NextCodec ==
    \/ call_convert_int_to_list
    \/ call_convert_list_to_int
    \/ return_to_caller

SpecCodec == InitCodec /\ [][NextCodec]_vars

\* C2: for every width >= 1 and every value below 2^width, the list returned
\* by convert_int_to_list has width entries, each 0 or 1, and
\* convert_list_to_int maps it back to the value.
RoundTrip ==
    (/\ out.op = "convert_int_to_list"
     /\ out.arg[2] < Pow2(out.arg[1]))
    => /\ out.kind = "ok"
       /\ Len(out.val) = out.arg[1]
       /\ \A i \in 1..Len(out.val) : out.val[i] \in {0, 1}
       /\ convert_list_to_int(out.arg[1], out.val) = out.arg[2]

\* An asymmetric value, 0b0110 at width 4, has been encoded.
RoundTripWitness ==
    /\ out.op = "convert_int_to_list"
    /\ out.arg = <<4, 6>>
    /\ out.val = <<0, 1, 1, 0>>

\* C5: convert_int_to_list called with a value >= 2^width raises RangeError.
EncodeRejectsOutOfRange ==
    (/\ out.op = "convert_int_to_list"
     /\ out.arg[2] >= Pow2(out.arg[1]))
    => out.kind = "RangeError"


\* ------------------------------------------------------------ the circuit
\* list(range(lo, hi))
range_list(lo, hi) == [i \in 1..(IF hi > lo THEN hi - lo ELSE 0) |-> lo + i - 1]

x_op(qubit) == <<"x", qubit, qubit>>

\* circuit.h(qubits): one Hadamard per listed wire, in list order.
h_ops(qubits) == [i \in 1..Len(qubits) |-> <<"h", qubits[i], qubits[i]>>]

cz_op(control, target) == <<"cz", control, target>>

\* circuit.measure(qubits, clbits): wire qubits[i] into classical bit clbits[i].
measure_ops_reversed(qubits, clbits) ==
    [i \in 1..Len(qubits) |-> <<"measure", qubits[i], clbits[Len(clbits) + 1 - i]>>]

measure_ops(qubits, clbits) ==
    [i \in 1..Len(qubits) |-> <<"measure", qubits[i], clbits[i]>>]

\* for i in range(0, num_qubits - 1): if alist[i] == 1: cz(i, num_qubits - 1)
RECURSIVE compile_loop(_, _, _)
compile_loop(n, alist, i) ==
    IF i >= n - 1 THEN <<>>
    ELSE (IF alist[i + 1] = 1 THEN <<cz_op(i, n - 1)>> ELSE <<>>)
         \o compile_loop(n, alist, i + 1)

\* The gates compile_func appends for the stored secret.
compile_func(n, av, bv) ==
    compile_loop(n, convert_int_to_list(n - 1, av), 0)
    \o (IF bv = 1 THEN <<x_op(n - 1)>> ELSE <<>>)

\* The gates one construct_circuit call appends.
construct_circuit_ops(n, av, bv) ==
    <<x_op(n - 1)>>
    \o h_ops(range_list(0, n - 1))
    \o compile_func(n, av, bv)
    \o h_ops(range_list(0, n - 1))
    \o measure_ops(range_list(0, n - 1), range_list(0, n - 1))

\* Number of construct_circuit calls the circuit holds: each measures wire 0 once.
NumBuilds(circ) == Cardinality({i \in 1..Len(circ) : circ[i][1] = "measure" /\ circ[i][2] = 0})

\* ------------------------------------------------------------- set_input
b_is_bit(bv) == ~(bv # 0 /\ bv # 1)

a_in_range_inclusive(n, av) == 0 <= av /\ av <= Pow2(n - 1)

a_in_range(n, av) == 0 <= av /\ av < Pow2(n - 1)

\* What set_input does to (_a, _b) and what it raises, from the stored pair.
set_input_result(n, olda, oldb, parameter) ==
    IF Len(parameter) # 2
    THEN [a |-> olda, b |-> oldb,
          out |-> Raised("set_input", parameter, "ValueError",
                         "Berstain vazirani must have two input parameter a,b!")]
    ELSE [a |-> parameter[1], b |-> parameter[2],
          out |-> IF ~b_is_bit(parameter[2])
                  THEN Raised("set_input", parameter, "ValueError", "b has to be 0 or 1")
                  ELSE IF ~a_in_range(n, parameter[1])
                  THEN Raised("set_input", parameter, "ValueError", "a out of range")
                  ELSE Returned("set_input", parameter, <<>>)]

\* The parameter lists a caller passes: every pair with a from -1 to 2^(n-1)
\* and b from 0 to 2, and lists of the wrong length.
Parameters(n) ==
    {<<av, bv>> : av \in (-1)..Pow2(n - 1), bv \in 0..2}
    \cup {<<>>, <<1>>, <<1, 0, 1>>}

set_input ==
    /\ out = NoCall
    /\ \E parameter \in Parameters(num_qubits) :
           LET r == set_input_result(num_qubits, a, b, parameter) IN
           /\ a' = r.a
           /\ b' = r.b
           /\ out' = r.out
           /\ UNCHANGED <<num_qubits, circuit, noise_model, computed>>

construct_circuit ==
    /\ out = NoCall
    /\ Len(circuit) + Len(construct_circuit_ops(num_qubits, a, b)) <= MaxGates
    /\ circuit' = circuit \o construct_circuit_ops(num_qubits, a, b)
    /\ out' = Returned("construct_circuit", <<>>, <<>>)
    /\ UNCHANGED <<num_qubits, a, b, noise_model, computed>>

clear_circuit ==
    /\ out = NoCall
    /\ out' = Raised("clear_circuit", <<>>, "NotImplementedError",
                     "Subclasses must implement construct_circuit method.")
    /\ UNCHANGED <<num_qubits, a, b, circuit, noise_model, computed>>

set_noise_model ==
    /\ out = NoCall
    /\ \E model \in {"None", "noisy"} :
           /\ noise_model' = model
           /\ out' = Returned("set_noise_model", <<model>>, <<>>)
           /\ UNCHANGED <<num_qubits, a, b, circuit, computed>>


\* ------------------------------------------------------------ a_to_string
Digit(d) == IF d = 0 THEN "0" ELSE "1"

\* The binary digits of k >= 0, most significant first, as bin(k) prints them.
RECURSIVE bin_digits(_)
bin_digits(k) ==
    IF k < 2 THEN <<Digit(k)>> ELSE bin_digits(k \div 2) \o <<Digit(k % 2)>>

\* bin(k)[2:]: "0b101"[2:] is "101", "-0b101"[2:] is "b101".
bin_tail(k) == IF k >= 0 THEN bin_digits(k) ELSE <<"b">> \o bin_digits(-k)

\* str.zfill(width) of a string that starts with no sign.
zfill(s, width) ==
    IF Len(s) >= width THEN s ELSE [i \in 1..(width - Len(s)) |-> "0"] \o s

a_to_string_not_reversed(n, av) == zfill(bin_tail(av), n - 1)

a_to_string(n, av) == Reverse(zfill(bin_tail(av), n - 1))

\* ---------------------------------------------------------- the simulator
\* A state vector is the set of <<basis index, amplitude>> with a non-zero
\* amplitude; amplitudes are integers, the common factor 1/sqrt(2) of each
\* Hadamard is dropped (only which outcomes have probability > 0 matters).
Bit(k, q) == (k \div Pow2(q)) % 2

Amp(psi, k) ==
    LET m == {p \in psi : p[1] = k}
    IN  IF m = {} THEN 0 ELSE (CHOOSE p \in m : TRUE)[2]

apply_x(psi, q) ==
    {<<IF Bit(p[1], q) = 0 THEN p[1] + Pow2(q) ELSE p[1] - Pow2(q), p[2]>> : p \in psi}

apply_h(n, psi, q) ==
    LET all == {<<k, IF Bit(k, q) = 0
                     THEN Amp(psi, k) + Amp(psi, k + Pow2(q))
                     ELSE Amp(psi, k - Pow2(q)) - Amp(psi, k)>> : k \in 0..(Pow2(n) - 1)}
    IN  {p \in all : p[2] # 0}

apply_cz(psi, c, t) ==
    {<<p[1], IF Bit(p[1], c) = 1 /\ Bit(p[1], t) = 1 THEN 0 - p[2] ELSE p[2]>> : p \in psi}

project(psi, q, v) == {p \in psi : Bit(p[1], q) = v}

\* One instruction on every branch of the execution; a measurement splits a
\* branch into the outcomes of non-zero probability and writes the classical bit.
apply_op(n, branches, g) ==
    CASE g[1] = "x"  -> {[psi |-> apply_x(br.psi, g[2]), creg |-> br.creg] : br \in branches}
      [] g[1] = "h"  -> {[psi |-> apply_h(n, br.psi, g[2]), creg |-> br.creg] : br \in branches}
      [] g[1] = "cz" -> {[psi |-> apply_cz(br.psi, g[2], g[3]), creg |-> br.creg] : br \in branches}
      [] OTHER       ->
            UNION {{[psi |-> project(br.psi, g[2], v),
                     creg |-> [br.creg EXCEPT ![g[3]] = v]]
                    : v \in {w \in {0, 1} : project(br.psi, g[2], w) # {}}}
                   : br \in branches}

RECURSIVE run_from(_, _, _, _)
run_from(n, circ, i, branches) ==
    IF i > Len(circ) THEN branches
    ELSE run_from(n, circ, i + 1, apply_op(n, branches, circ[i]))

\* The bitstring of a classical register: classical bit 0 is the rightmost character.
bitstring(n, creg) == [j \in 1..(n - 1) |-> Digit(creg[n - 1 - j])]

\* The bitstrings one noiseless shot of the circuit can give.
ideal_outcomes(n, circ) ==
    {bitstring(n, br.creg) :
        br \in run_from(n, circ, 1, {[psi |-> {<<0, 1>>}, creg |-> [c \in 0..(n - 2) |-> 0]]})}

\* Under a noise model any bitstring can be observed.
all_bitstrings(n) == {bitstring(n, creg) : creg \in [0..(n - 2) -> {0, 1}]}

has_measure(circ) == \E i \in 1..Len(circ) : circ[i][1] = "measure"

\* get_counts: how often each observed bitstring came out of the shots.
tally(shot_results) ==
    [k \in {shot_results[i] : i \in DOMAIN shot_results} |->
        Cardinality({i \in DOMAIN shot_results : shot_results[i] = k})]

\* --------------------------------------------------------- compute_result
count_of_default_one(counts, key) == IF key \in DOMAIN counts THEN counts[key] ELSE 1

\* if self.a_to_string() in counts: result = counts[...] else: result = 0
count_of(counts, key) == IF key \in DOMAIN counts THEN counts[key] ELSE 0

\* accuracy = result / shots, from the counts the simulator returned.
score(n, av, shots, counts) ==
    IF shots = 0
    THEN Raised("compute_result", <<shots>>, "ZeroDivisionError", "division by zero")
    ELSE [Returned("compute_result", <<shots>>,
                   <<count_of(counts, a_to_string(n, av)), shots>>)
          EXCEPT !.counts = counts]

\* The bitstrings one shot of the circuit can give under the noise model.
shot_outcomes(n, circ, noise) ==
    IF noise = "None" THEN ideal_outcomes(n, circ) ELSE all_bitstrings(n)

\* The bitstring read as a binary number; it orders the shots below.
RECURSIVE key_rank(_)
key_rank(key) ==
    IF key = <<>> THEN 0
    ELSE 2 * key_rank(SubSeq(key, 1, Len(key) - 1)) + (IF key[Len(key)] = "1" THEN 1 ELSE 0)

\* The results of `shots` shots, up to their order (the counts ignore it):
\* the sequences of <<rank, bitstring>> in ascending order of rank.
RECURSIVE ranked_shots(_, _)
ranked_shots(ranked, shots) ==
    IF shots <= 0 THEN {<<>>}
    ELSE UNION {{<<r>> \o t : t \in {u \in rest : u = <<>> \/ r[1] <= u[1][1]}}
                : r \in ranked, rest \in {ranked_shots(ranked, shots - 1)}}

shot_results(outcomes, shots) ==
    {[i \in DOMAIN s |-> s[i][2]] :
        s \in ranked_shots({<<key_rank(k), k>> : k \in outcomes}, shots)}

\* Every way one compute_result(shots) call can end.  The simulator is not
\* part of the source: a circuit without measurement has no counts; what it
\* does with shots <= 0 is left open (it raises, or it returns no counts).
compute_result_outcomes(n, av, circ, outcomes, shots) ==
    IF ~has_measure(circ)
    THEN {Raised("compute_result", <<shots>>, "QiskitError", "No counts for experiment")}
    ELSE IF shots <= 0
    THEN {Raised("compute_result", <<shots>>, "AerError", "simulation failed"),
          score(n, av, shots, <<>>)}
    ELSE {score(n, av, shots, tally(s)) : s \in shot_results(outcomes, shots)}

compute_result ==
    /\ out = NoCall
    /\ \E outcomes \in {shot_outcomes(num_qubits, circuit, noise_model)},
          shots \in (-1)..MaxShots :
           \E o \in compute_result_outcomes(num_qubits, a, circuit, outcomes, shots) :
               /\ out' = o
               /\ computed' = (computed \/ o.kind = "ok")
               /\ UNCHANGED <<num_qubits, a, b, circuit, noise_model>>

\* ------------------------------------------------------ the specification
Init ==
    /\ num_qubits \in 2..MaxN
    /\ a = 0
    /\ b = 0
    /\ circuit = <<>>
    /\ noise_model = "None"
    /\ computed = FALSE
    /\ out = NoCall

Next ==
    \/ set_input
    \/ construct_circuit
    \/ compute_result
    \/ set_noise_model
    \/ clear_circuit
    \/ return_to_caller

Spec == Init /\ [][Next]_vars

ValidSecret == a_in_range(num_qubits, a) /\ b_is_bit(b)


\* ================================================================= claims
Shots == out.arg[1]

\* The bitstring in which classical output i (character n-1-i, output 0
\* rightmost) shows the bit of the secret that wire i carries, bit n-2-i.
SecretKey ==
    [j \in 1..(num_qubits - 1) |-> Digit((a \div Pow2(j - 1)) % 2)]

FreshBuildOfStoredSecret == circuit = construct_circuit_ops(num_qubits, a, b)

\* C1: with a valid secret set and the circuit built once from it, a noiseless
\* compute_result(shots), shots >= 1, sees on every shot the bitstring
\* a_to_string() (the secret's bits, classical output 0 rightmost) and returns
\* accuracy shots/shots = 1.
NoiselessAccuracyIsOne ==
    (/\ out.op = "compute_result"
     /\ Shots >= 1
     /\ noise_model = "None"
     /\ ValidSecret
     /\ FreshBuildOfStoredSecret)
    => /\ out.kind = "ok"
       /\ a_to_string(num_qubits, a) = SecretKey
       /\ DOMAIN out.counts = {SecretKey}
       /\ out.counts[SecretKey] = Shots
       /\ out.val = <<Shots, Shots>>

\* n = 3, a = 0b01, b = 1, two noiseless shots: the counts are {"10": 2}.
NoiselessAccuracyIsOneWitness ==
    /\ out.op = "compute_result"
    /\ Shots = 2
    /\ noise_model = "None"
    /\ num_qubits = 3 /\ a = 1 /\ b = 1
    /\ FreshBuildOfStoredSecret
    /\ out.val = <<2, 2>>
    /\ DOMAIN out.counts = {<<"1", "0">>}

\* What the claims about set_input distinguish in the parameter of the last call.
WrongArity == Len(out.arg) # 2
BadB == Len(out.arg) = 2 /\ out.arg[2] \notin {0, 1}
BadA == Len(out.arg) = 2 /\ out.arg[2] \in {0, 1}
        /\ ~(0 <= out.arg[1] /\ out.arg[1] < Pow2(num_qubits - 1))

\* The kind of error set_input raises for a parameter list of the wrong length.
ArityErrorKind == set_input_result(num_qubits, a, b, <<>>).out.kind

\* C3 as stated: wrong arity and b outside {0,1} raise one kind of error
\* (InputError), a out of range raises a kind distinct from it (RangeError),
\* and every valid pair is accepted.
SetInputErrorKindsDistinct ==
    out.op = "set_input"
    => /\ (WrongArity \/ BadB) => out.kind = ArityErrorKind
       /\ BadA => (out.kind # "ok" /\ out.kind # ArityErrorKind)
       /\ ~(WrongArity \/ BadB \/ BadA) => out.kind = "ok"

\* C3 (amended): set_input raises ValueError, one and the same kind, for a
\* parameter list whose length is not 2, for b outside {0,1} and for a outside
\* [0, 2^(n-1)); it accepts every valid pair without error.
SetInputRejectsWithValueError ==
    out.op = "set_input"
    => /\ WrongArity => out.kind = "ValueError"
       /\ BadB => (out.kind = "ValueError" /\ out.msg = "b has to be 0 or 1")
       /\ BadA => (out.kind = "ValueError" /\ out.msg = "a out of range")
       /\ ~(WrongArity \/ BadB \/ BadA) => out.kind = "ok"

\* set_input([2^(n-1), 0]) has just been rejected.
SetInputRejectsWitness ==
    /\ out.op = "set_input"
    /\ out.arg = <<Pow2(num_qubits - 1), 0>>
    /\ out.kind = "ValueError"

\* C4: in every reachable state the stored secret satisfies 0 <= a < 2^(n-1)
\* and b in {0,1} (a set_input call that raises stores nothing).
StoredSecretAlwaysValid == 0 <= a /\ a < Pow2(num_qubits - 1) /\ b \in {0, 1}

\* C6: compute_result called with shots <= 0 (here on a built circuit) raises
\* ConfigError: no other error, and no accuracy value.
NonPositiveShotsRaiseConfigError ==
    (out.op = "compute_result" /\ Shots <= 0 /\ has_measure(circuit))
    => out.kind = "ConfigError"

RECURSIVE SumCounts(_, _)
SumCounts(counts, keys) ==
    IF keys = {} THEN 0
    ELSE LET k == CHOOSE x \in keys : TRUE
         IN  counts[k] + SumCounts(counts, keys \ {k})

\* C7: when compute_result(shots), shots >= 1, gets counts that are positive
\* and sum to shots, the accuracy it returns is the count of a_to_string()
\* (0 if that bitstring is no key of the counts) over shots, and lies in [0,1].
AccuracyIsFractionOfShots ==
    (/\ out.op = "compute_result"
     /\ out.kind = "ok"
     /\ Shots >= 1
     /\ SumCounts(out.counts, DOMAIN out.counts) = Shots)
    => LET key == a_to_string(num_qubits, a) IN
       /\ out.val[2] = Shots
       /\ key \in DOMAIN out.counts => out.val[1] = out.counts[key]
       /\ key \notin DOMAIN out.counts => out.val[1] = 0
       /\ 0 <= out.val[1] /\ out.val[1] <= out.val[2]

\* Two noisy shots, one of them the expected bitstring: accuracy 1/2.
AccuracyIsFractionWitness ==
    /\ out.op = "compute_result"
    /\ out.kind = "ok"
    /\ ValidSecret
    /\ out.val = <<1, 2>>
    /\ Cardinality(DOMAIN out.counts) = 2

\* The gates between the two Hadamard layers of a circuit built once.
OracleSection ==
    SubSeq(circuit, num_qubits + 1, Len(circuit) - 2 * (num_qubits - 1))

OneBits == {i \in 0..(num_qubits - 2) : (a \div Pow2(num_qubits - 2 - i)) % 2 = 1}

\* C8: for a valid secret, compile_func appends one cz(i, n-1) for exactly the
\* wires i in 0..n-2 whose bit n-2-i of a is 1, in ascending order of i, then
\* one x(n-1) iff b = 1; none for a = 0, n-1 of them for a = 2^(n-1)-1.
OraclePlacement ==
    (/\ out.op = "construct_circuit"
     /\ NumBuilds(circuit) = 1
     /\ ValidSecret)
    => LET m == OracleSection
           nz == Cardinality(OneBits)
           t == num_qubits - 1
       IN  /\ Len(m) = nz + (IF b = 1 THEN 1 ELSE 0)
           /\ \A j \in 1..nz : m[j][1] = "cz" /\ m[j][2] \in OneBits /\ m[j][3] = t
           /\ \A j \in 1..(nz - 1) : m[j][2] < m[j + 1][2]
           /\ b = 1 => m[nz + 1] = <<"x", t, t>>
           /\ a = 0 => nz = 0
           /\ a = Pow2(t) - 1 => nz = t

\* n = 3, a = 0b01, b = 1: the oracle is cz(1, 2) then x(2).
OraclePlacementWitness ==
    /\ out.op = "construct_circuit"
    /\ NumBuilds(circuit) = 1
    /\ num_qubits = 3 /\ a = 1 /\ b = 1
    /\ OracleSection = <<<<"cz", 1, 2>>, <<"x", 2, 2>>>>

\* C9: one construct_circuit on a fresh object appends x(n-1), h on wires
\* 0..n-2, the oracle gates, h on wires 0..n-2 again, then the measurement of
\* wire i into classical output i for i in 0..n-2: n-1 measurements, none of
\* wire n-1.
CircuitOrder ==
    (out.op = "construct_circuit" /\ NumBuilds(circuit) = 1)
    => LET w == num_qubits - 1
           L == Len(circuit)
       IN  /\ L >= 1 + 3 * w
           /\ circuit[1] = <<"x", w, w>>
           /\ \A i \in 1..w : circuit[1 + i] = <<"h", i - 1, i - 1>>
           /\ OracleSection = compile_func(num_qubits, a, b)
           /\ \A i \in 1..w : circuit[L - 2 * w + i] = <<"h", i - 1, i - 1>>
           /\ \A i \in 1..w : circuit[L - w + i] = <<"measure", i - 1, i - 1>>
           /\ Cardinality({i \in 1..L : circuit[i][1] = "measure"}) = w
           /\ \A i \in 1..L : circuit[i][1] = "measure" => circuit[i][2] # w

\* n = 3, a = 0b10, b = 1 built once: 9 gates ending in measure(1 -> 1).
CircuitOrderWitness ==
    /\ out.op = "construct_circuit"
    /\ NumBuilds(circuit) = 1
    /\ num_qubits = 3 /\ a = 2 /\ b = 1
    /\ Len(circuit) = 9
    /\ circuit[9] = <<"measure", 1, 1>>

\* The wires that control a cz gate somewhere in the circuit.
EncodedBits == {circuit[i][2] : i \in {j \in 1..Len(circuit) : circuit[j][1] = "cz"}}

\* C10: whenever compute_result runs, whatever calls came before, the circuit
\* holds exactly one protocol instance and it encodes the stored a: no gates
\* of an earlier build, no secret other than the one that is scored.
ComputeRunsOneInstanceOfStoredSecret ==
    (out.op = "compute_result" /\ out.kind = "ok" /\ Shots >= 1 /\ ValidSecret)
    => (NumBuilds(circuit) = 1 /\ EncodedBits = OneBits)

====
